---- MODULE Spec2Model ----
(***************************************************************************)
(* A model of the particle-mesh N-body simulator (class Simulation) and of *)
(* the MPI sweep driver NBody_Comparison.                                  *)
(*                                                                         *)
(* Three state machines share this module:                                 *)
(*   SpecCtor   the constructor and the buffer-size / index arithmetic of  *)
(*              the mesh, in exact 32-bit (uint) and 64-bit (size_t)       *)
(*              arithmetic;                                                *)
(*   SpecRun    Simulation::run on a small mesh, pass by pass;             *)
(*   SpecSweep  the coordinator / peer message exchange of the driver.     *)
(*                                                                         *)
(* Numbers.  A double is modelled as a fixed-point number: the integer n   *)
(* stands for n / One.  The right-hand side of an assignment is computed   *)
(* exactly and rounded to the grid when it is stored.  The loop variable   *)
(* t of run is, in addition, rounded to Precision significant bits         *)
(* (round to nearest, ties to even) on every addition, because the loop    *)
(* test of run depends on the rounding of the accumulated sum.             *)
(***************************************************************************)
EXTENDS Integers, Sequences, FiniteSets, TLC

VARIABLES
    \* ---- SpecCtor: one constructor call and the size arithmetic --------
    call,            \* the constructor's arguments
    obj,             \* "unconstructed" | "constructed" | "invalid_argument" | "overflow_error"
    warned,          \* warnings written to std::cerr by the constructor
    allocated,       \* the three mesh buffers and the two plans exist
    buffer_length,   \* uint buffer_length of the constructor (limbs)
    memset_cells,    \* cells zeroed by the memset of fill_density_buffer
    total_size,      \* uint total_size of fill_potential_buffer (limbs)
    index,           \* uint index of fill_density_buffer for one cell
    ran,             \* run() has been called on the object
    \* ---- SpecRun: the fields of one Simulation and the locals of run ---
    time_max, time_step, box_width, number_of_cells, expansion_factor,
    mass, particles,
    density_buffer, k_space_buffer, potential_buffer,
    gradient,        \* the local vector of update_particles
    t, counter, output_folder,
    pc,              \* the pass run is about to execute
    deposited,       \* particles whose deposit iteration has executed
    step_count,      \* history: completed iterations of the while loop
    trace,           \* history: passes completed in the current iteration
    snapshots,       \* history: step ordinals at which SaveToFile was called
    ref,             \* history: the same run without an output folder
    \* ---- SpecSweep: the processes of the driver ------------------------
    num_proc, flags_valid, eager,
    emin, emax,      \* coordinator: minimum/maximum_expansion_factor
    ppc,             \* position of each process in main
    loop_i,          \* coordinator: loop variable i
    network,         \* messages sent and not yet received
    peer_step, peer_min,   \* peers: expansion_factor_step, minimum_expansion_factor
    sim_factor,      \* expansion factor each process passed to its Simulation
    corr_funcs       \* coordinator: lengths of the collected vectors, by rank

ctorVars  == <<call, obj, warned, allocated, buffer_length, memset_cells,
               total_size, index, ran>>
runVars   == <<time_max, time_step, box_width, number_of_cells,
               expansion_factor, mass, particles, density_buffer,
               k_space_buffer, potential_buffer, gradient, t, counter,
               output_folder, pc, deposited, step_count, trace, snapshots, ref>>
sweepVars == <<num_proc, flags_valid, eager, emin, emax, ppc, loop_i, network,
               peer_step, peer_min, sim_factor, corr_funcs>>
vars      == <<ctorVars, runVars, sweepVars>>

(***************************************************************************)
(* Fixed-point doubles.                                                    *)
(***************************************************************************)
FracBits == 3
One == 2^FracBits

\* a / b rounded to the nearest integer (b > 0), halves upwards
RoundDiv(a, b) == (2 * a + b) \div (2 * b)

(***************************************************************************)
(* uint (32 bit) and size_t (64 bit) values as little-endian base-256      *)
(* digit strings of Limbs digits (96 bits hold every exact N_c^3).         *)
(***************************************************************************)
Base == 2^8
UintLimbs == 4                 \* digits of a uint
SizeTLimbs == 2 * UintLimbs    \* digits of a size_t
Limbs == 3 * UintLimbs         \* digits of the exact cube of a uint

Digits == 1..Limbs

Pow256(d) == IF d = 0 THEN 1 ELSE IF d = 1 THEN 256 ELSE IF d = 2 THEN 65536 ELSE 16777216

\* the digit string of a natural number below 2^31
ToLimbs(n) == [d \in Digits |-> IF d <= 4 THEN (n \div Pow256(d - 1)) % Base ELSE 0]

\* the natural number of a digit string below 2^31
ToNat(a) == a[1] + 256 * a[2] + 65536 * a[3] + 16777216 * a[4]

FitsNat(a) == a[4] < 128 /\ \A d \in 5..Limbs : a[d] = 0

\* sum of a[i] * b[k + 1 - i] for i = 1..m: digit k of the convolution
RECURSIVE Conv(_, _, _, _)
Conv(a, b, k, m) ==
    IF m = 0 THEN 0 ELSE a[m] * b[k + 1 - m] + Conv(a, b, k, m - 1)

\* digits k..n of a * b, given the carry into digit k
RECURSIVE MulDigits(_, _, _, _, _)
MulDigits(a, b, k, n, carry) ==
    IF k > n THEN <<>>
    ELSE LET v == Conv(a, b, k, k) + carry
         IN  <<v % Base>> \o MulDigits(a, b, k + 1, n, v \div Base)

\* digits k..n of a + b, given the carry into digit k
RECURSIVE AddDigits(_, _, _, _, _)
AddDigits(a, b, k, n, carry) ==
    IF k > n THEN <<>>
    ELSE LET v == a[k] + b[k] + carry
         IN  <<v % Base>> \o AddDigits(a, b, k + 1, n, v \div Base)

Pad(ds) == [d \in Digits |-> IF d <= Len(ds) THEN ds[d] ELSE 0]

\* a * b modulo Base^n
MulMod(a, b, n) == Pad(MulDigits(a, b, 1, n, 0))

\* a + b modulo Base^n
AddMod(a, b, n) == Pad(AddDigits(a, b, 1, n, 0))

\* a < b
LimbLess(a, b) ==
    \E d \in Digits : a[d] < b[d] /\ \A e \in (d + 1)..Limbs : a[e] = b[e]

\* integer division of a digit string by 16 = sizeof(fftw_complex)
Div16(a) ==
    [d \in Digits |-> (a[d] \div 16) + (IF d < Limbs THEN (a[d + 1] % 16) * 16 ELSE 0)]

UMul(a, b) == MulMod(a, b, UintLimbs)     \* uint * uint
UAdd(a, b) == AddMod(a, b, UintLimbs)     \* uint + uint
SMul(a, b) == MulMod(a, b, SizeTLimbs)    \* size_t * size_t
ExactMul(a, b) == MulMod(a, b, Limbs)     \* mathematical product (below 2^96)
ExactAdd(a, b) == AddMod(a, b, Limbs)

IntMax == [d \in Digits |-> IF d <= 3 THEN 255 ELSE IF d = 4 THEN 127 ELSE 0]
Zero   == ToLimbs(0)
SizeofComplex == ToLimbs(16)

Cube(n) == ExactMul(ExactMul(n, n), n)

(***************************************************************************)
(* Simulation::Simulation.                                                 *)
(***************************************************************************)
WarnCells == ToLimbs(400)

\* the value of a local that no statement has assigned yet
NotComputed == <<>>

Throw(what, warnings) ==
    [outcome |-> what, warned |-> warnings, allocated |-> FALSE,
     buffer_length |-> NotComputed]

\* The constructor without its test of W: a mutant of Simulation.
SimulationNoWidthTest(t_max, t_step, W, num_cells, e_factor) ==
    LET w1 == IF e_factor < One THEN {"e_factor"} ELSE {}
        w2 == IF LimbLess(WarnCells, num_cells) THEN w1 \cup {"num_cells"} ELSE w1
    IN  IF t_max <= 0 THEN Throw("invalid_argument", {})
        ELSE IF t_step <= 0 THEN Throw("invalid_argument", {})
        ELSE IF e_factor <= 0 THEN Throw("invalid_argument", {})
        ELSE IF LimbLess(IntMax, num_cells) THEN Throw("overflow_error", w1)
        ELSE [outcome |-> "constructed", warned |-> w2, allocated |-> TRUE,
              buffer_length |-> UMul(UMul(num_cells, num_cells), num_cells)]

\* The outcome of the constructor: what it throws or the object it leaves,
\* the warnings it wrote, and the uint buffer_length it allocated with.
Simulation(t_max, t_step, W, num_cells, e_factor) ==
    LET w1 == IF e_factor < One THEN {"e_factor"} ELSE {}
        w2 == IF LimbLess(WarnCells, num_cells) THEN w1 \cup {"num_cells"} ELSE w1
    IN  IF t_max <= 0 THEN Throw("invalid_argument", {})
        ELSE IF t_step <= 0 THEN Throw("invalid_argument", {})
        ELSE IF W <= 0 THEN Throw("invalid_argument", {})
        ELSE IF e_factor <= 0 THEN Throw("invalid_argument", {})
        ELSE IF LimbLess(IntMax, num_cells) THEN Throw("overflow_error", w1)
        ELSE [outcome |-> "constructed", warned |-> w2, allocated |-> TRUE,
              buffer_length |-> UMul(UMul(num_cells, num_cells), num_cells)]

\* memset length of fill_density_buffer in cells:
\* sizeof(fftw_complex) * N * N * N is evaluated in size_t, left to right.
MemsetCells(num_cells) ==
    Div16(SMul(SMul(SMul(SizeofComplex, num_cells), num_cells), num_cells))

\* uint total_size of fill_potential_buffer
TotalSize(num_cells) == UMul(UMul(num_cells, num_cells), num_cells)

\* uint index = k + N * (j + N * i), in uint arithmetic
CellIndex(i, j, k, num_cells) ==
    UAdd(k, UMul(num_cells, UAdd(j, UMul(num_cells, i))))

\* the same index without wrap-around
ExactIndex(i, j, k, num_cells) ==
    ExactAdd(k, ExactMul(num_cells, ExactAdd(j, ExactMul(num_cells, i))))

(***************************************************************************)
(* SpecCtor: one constructor call, then the calls whose extents depend on  *)
(* the cell count.                                                         *)
(***************************************************************************)
CtorDoubles == {-One, 0, One}
CtorFactors == {-One, 0, One \div 2, One, 2 * One}
UintMax == [d \in Digits |-> IF d <= UintLimbs THEN 255 ELSE 0]
CtorCells ==
    {ToLimbs(0), ToLimbs(1), ToLimbs(2), ToLimbs(4), ToLimbs(400), ToLimbs(401),
     ToLimbs(1625), ToLimbs(1626), IntMax, UAdd(IntMax, ToLimbs(1)), UintMax}
\* cell coordinates tried for the index computation
ProbeCoords == {0, 2}

RunIdle ==
    /\ time_max = 0 /\ time_step = 0 /\ box_width = 0 /\ number_of_cells = 0
    /\ expansion_factor = 0 /\ mass = 0 /\ particles = <<>>
    /\ density_buffer = <<>> /\ k_space_buffer = <<>> /\ potential_buffer = <<>>
    /\ gradient = <<>> /\ t = 0 /\ counter = 0 /\ output_folder = FALSE
    /\ pc = "idle" /\ deposited = {} /\ step_count = 0 /\ trace = <<>>
    /\ snapshots = <<>> /\ ref = <<>>

SweepIdle ==
    /\ num_proc = 0 /\ flags_valid = FALSE /\ eager = FALSE /\ emin = 0 /\ emax = 0
    /\ ppc = <<>> /\ loop_i = 0 /\ network = {} /\ peer_step = <<>>
    /\ peer_min = <<>> /\ sim_factor = <<>> /\ corr_funcs = <<>>

CtorIdle ==
    /\ call = <<>> /\ obj = "idle" /\ warned = {} /\ allocated = FALSE
    /\ buffer_length = NotComputed /\ memset_cells = NotComputed
    /\ total_size = NotComputed /\ index = NotComputed /\ ran = FALSE

InitCtor ==
    /\ call \in [t_max : CtorDoubles, t_step : CtorDoubles, W : CtorDoubles,
                 num_cells : CtorCells, e_factor : CtorFactors]
    /\ obj = "unconstructed" /\ warned = {} /\ allocated = FALSE
    /\ buffer_length = NotComputed /\ memset_cells = NotComputed
    /\ total_size = NotComputed /\ index = NotComputed /\ ran = FALSE
    /\ RunIdle /\ SweepIdle

Construct ==
    /\ obj = "unconstructed"
    /\ LET r == Simulation(call.t_max, call.t_step, call.W, call.num_cells,
                           call.e_factor)
       IN  /\ obj' = r.outcome
           /\ warned' = r.warned
           /\ allocated' = r.allocated
           /\ buffer_length' = r.buffer_length
    /\ UNCHANGED <<call, memset_cells, total_size, index, ran>>
    /\ UNCHANGED <<runVars, sweepVars>>

\* run() can only be called on an object the constructor returned.
CallRun ==
    /\ obj = "constructed" /\ ~ran
    /\ ran' = TRUE
    /\ UNCHANGED <<call, obj, warned, allocated, buffer_length, memset_cells,
                   total_size, index>>
    /\ UNCHANGED <<runVars, sweepVars>>

\* fill_density_buffer: the memset and the index of a particle in cell (i,j,k)
SizeFillDensity(i, j, k) ==
    /\ obj = "constructed" /\ ran
    /\ LimbLess(ToLimbs(i), call.num_cells)
    /\ LimbLess(ToLimbs(j), call.num_cells)
    /\ LimbLess(ToLimbs(k), call.num_cells)
    /\ memset_cells' = MemsetCells(call.num_cells)
    /\ index' = [cell |-> <<i, j, k>>,
                 value |-> CellIndex(ToLimbs(i), ToLimbs(j), ToLimbs(k),
                                     call.num_cells)]
    /\ UNCHANGED <<call, obj, warned, allocated, buffer_length, total_size, ran>>
    /\ UNCHANGED <<runVars, sweepVars>>

\* fill_potential_buffer: the range of the scaling loop
SizeFillPotential ==
    /\ obj = "constructed" /\ ran
    /\ total_size' = TotalSize(call.num_cells)
    /\ UNCHANGED <<call, obj, warned, allocated, buffer_length, memset_cells,
                   index, ran>>
    /\ UNCHANGED <<runVars, sweepVars>>

NextCtor ==
    \/ Construct
    \/ CallRun
    \/ \E i \in ProbeCoords, j \in ProbeCoords, k \in ProbeCoords :
           SizeFillDensity(i, j, k)
    \/ SizeFillPotential

SpecCtor == InitCtor /\ [][NextCtor]_vars

(***************************************************************************)
(* The loop variable t of run: a binary floating-point number with         *)
(* Precision significant bits, in units of 1 / One.                        *)
(***************************************************************************)
Precision == 5

RECURSIVE BitLen(_)
BitLen(n) == IF n = 0 THEN 0 ELSE 1 + BitLen(n \div 2)

\* x >= 0 rounded to Precision significant bits, to nearest, ties to even
RoundBits(x) ==
    LET h == BitLen(x)
    IN  IF h <= Precision THEN x
        ELSE LET q  == 2^(h - Precision)
                 lo == (x \div q) * q
                 r  == x - lo
             IN  IF 2 * r < q THEN lo
                 ELSE IF 2 * r > q THEN lo + q
                 ELSE IF (lo \div q) % 2 = 0 THEN lo ELSE lo + q

\* t += time_step
FAdd(a, b) == RoundBits(a + b)

(***************************************************************************)
(* The mesh.  A buffer is a function from 0..length-1 to complex numbers   *)
(* <<re, im>>.                                                             *)
(***************************************************************************)
CZero == <<0, 0>>

\* an array whose elements have been computed and stored
Stored(f) == f @@ <<>>
CAdd(z, w) == <<z[1] + w[1], z[2] + w[2]>>

CoordI(n, N) == n \div (N * N)
CoordJ(n, N) == (n \div N) % N
CoordK(n, N) == n % N
Idx(i, j, k, N) == k + N * (j + N * i)

\* z times i^q
Rot(z, q) ==
    CASE q = 0 -> z
      [] q = 1 -> <<-z[2], z[1]>>
      [] q = 2 -> <<-z[1], -z[2]>>
      [] q = 3 -> <<z[2], -z[1]>>

\* cell n with its coordinate along axis replaced by a
Along(n, axis, a, N) ==
    CASE axis = 0 -> Idx(a, CoordJ(n, N), CoordK(n, N), N)
      [] axis = 1 -> Idx(CoordI(n, N), a, CoordK(n, N), N)
      [] axis = 2 -> Idx(CoordI(n, N), CoordJ(n, N), a, N)

Coord(n, axis, N) ==
    CASE axis = 0 -> CoordI(n, N) [] axis = 1 -> CoordJ(n, N) [] axis = 2 -> CoordK(n, N)

\* sum over a = 0..m-1 of buf[.. a ..] * exp(sign * 2 pi i * c * a / N), for
\* N in {1, 2, 4}, where the N-th roots of unity are powers of i
RECURSIVE AxisSum(_, _, _, _, _, _)
AxisSum(buf, n, axis, sign, N, m) ==
    IF m = 0 THEN CZero
    ELSE LET a == m - 1
             q == (sign * Coord(n, axis, N) * a * (4 \div N)) % 4
         IN  CAdd(Rot(buf[Along(n, axis, a, N)], q),
                  AxisSum(buf, n, axis, sign, N, a))

DFTAxis(buf, axis, sign, N) ==
    Stored([n \in DOMAIN buf |-> AxisSum(buf, n, axis, sign, N, N)])

\* fftw_execute of a plan made by fftw_plan_dft_3d(N, N, N, in, out, sign, ..):
\* the unnormalised three-dimensional discrete Fourier transform of in
FFTWExecute(in, sign, N) ==
    DFTAxis(DFTAxis(DFTAxis(in, 2, sign, N), 1, sign, N), 0, sign, N)

FFTW_FORWARD == -1
FFTW_BACKWARD == 1

(***************************************************************************)
(* The passes of one time step, as functions of the fields they read.      *)
(***************************************************************************)
\* while (x < 0) x += step
RECURSIVE AddWhileNegative(_, _)
AddWhileNegative(x, step) == IF x < 0 THEN AddWhileNegative(x + step, step) ELSE x

\* while (x >= bound) x -= bound
RECURSIVE SubWhileAtLeast(_, _)
SubWhileAtLeast(x, bound) == IF x >= bound THEN SubWhileAtLeast(x - bound, bound) ELSE x

\* uint i = std::floor(position * number_of_cells)
CellCoord(position, N) == (position * N) \div One

CellOf(particle, N) ==
    Idx(CellCoord(particle.position[1], N), CellCoord(particle.position[2], N),
        CellCoord(particle.position[3], N), N)

\* double cell_width = box_width / number_of_cells
CellWidth(W, N) == RoundDiv(W, N)

\* double single_density = mass / (cell_width * cell_width * cell_width)
SingleDensity(m, W, N) ==
    LET cw == CellWidth(W, N) IN RoundDiv(m * One * One * One, cw * cw * cw)

\* A memset that zeroes nothing: a mutant of ZeroBuffer.
ZeroBufferSkipped(buf, cells) == buf

\* std::memset(buffer, 0, sizeof(fftw_complex) * cells)
ZeroBuffer(buf, cells) ==
    Stored([n \in DOMAIN buf |-> IF n < cells THEN CZero ELSE buf[n]])

\* #pragma omp atomic   density_buffer[index][0] += single_density
DepositOne(buf, particle, m, W, N) ==
    [buf EXCEPT ![CellOf(particle, N)] = <<@[1] + SingleDensity(m, W, N), @[2]>>]

PiNum == 22
PiDen == 7

\* k_space_buffer[index] *= norm_factor, with
\* norm_factor = -4 pi W^2 / (i^2 + j^2 + k^2) * 1 / (8 N^3)
\* kept as an exact fraction (pi as PiNum / PiDen) and the product rounded
ScaleCell(z, n, W, N) ==
    LET i  == CoordI(n, N)
        j  == CoordJ(n, N)
        k  == CoordK(n, N)
        num == -4 * PiNum * W * W
        den == PiDen * (i * i + j * j + k * k) * 8 * N * N * N * One * One
    IN  <<RoundDiv(z[1] * num, den), RoundDiv(z[2] * num, den)>>

\* the scaling loop of fill_potential_buffer, after k_space_buffer[0] = 0
PoissonScale(kspace, size, W, N) ==
    Stored([n \in DOMAIN kspace |->
               IF n = 0 THEN CZero
               ELSE IF n < size THEN ScaleCell(kspace[n], n, W, N)
               ELSE kspace[n]])

\* calculate_gradient: central differences with periodic neighbours
CalculateGradient(potential, W, N) ==
    LET cw == CellWidth(W, N)
        hi(c) == SubWhileAtLeast(c + 1, N)
        lo(c) == AddWhileNegative(c - 1, N)
        d(a, b) == RoundDiv((potential[a][1] - potential[b][1]) * One, 2 * cw)
    IN  Stored([n \in DOMAIN potential |->
            LET i == CoordI(n, N)
                j == CoordJ(n, N)
                k == CoordK(n, N)
            IN  << d(Idx(hi(i), j, k, N), Idx(lo(i), j, k, N)),
                   d(Idx(i, hi(j), k, N), Idx(i, lo(j), k, N)),
                   d(Idx(i, j, hi(k), N), Idx(i, j, lo(k), N)) >>])

\* The boundary conditions without the loop for negative positions: a
\* mutant of Wrap.
WrapNoNegativeLoop(x) == SubWhileAtLeast(x, One)

\* while (p < 0) p += 1;  while (p >= 1) p -= 1;
Wrap(x) == SubWhileAtLeast(AddWhileNegative(x, One), One)

\* the body of the loop of update_particles for one particle
UpdateOne(particle, grad, dt, N) ==
    LET g == grad[CellOf(particle, N)]
        v == [a \in 1..3 |-> particle.velocity[a] + RoundDiv(-1 * g[a] * dt, One)]
        x == [a \in 1..3 |-> Wrap(particle.position[a] + RoundDiv(v[a] * dt, One))]
    IN  [position |-> x, velocity |-> v]

UpdateParticles(parts, grad, dt, N) ==
    Stored([n \in DOMAIN parts |-> UpdateOne(parts[n], grad, dt, N)])

\* box_expansion: velocity /= expansion_factor
ExpandVelocities(parts, a) ==
    Stored([n \in DOMAIN parts |->
        [parts[n] EXCEPT !.velocity = [x \in 1..3 |-> RoundDiv(@[x] * One, a)]]])

\* box_expansion: box_width *= expansion_factor
ExpandWidth(W, a) == RoundDiv(W * a, One)

(***************************************************************************)
(* SpecRun: Simulation::run, one action per pass.  The deposit loop of     *)
(* fill_density_buffer runs one action per particle, in any order (the     *)
(* iterations are distributed over the threads and each increment is       *)
(* atomic); the other parallel loops write disjoint elements and are one   *)
(* action each.                                                            *)
(***************************************************************************)
NumParticles == 2
MaxSteps == 22
SnapshotEvery == 10

RunCells == {1, 2, 4}
\* <<time_step, time_max>>
RunTimes == {<<3, 3>>, <<2, 5>>, <<3, 33>>, <<1, 40>>}
RunFactors == {One - 1, One, One + 1}
\* the particles of the collection handed to the constructor
StartParticles ==
    { [position |-> <<0, 0, 0>>, velocity |-> <<0, 0, 0>>],
      [position |-> <<One - 1, 3, 5>>, velocity |-> <<-One, 2 * One, 1>>] }
\* what planning with FFTW_MEASURE may leave in the buffers
PlanGarbage == {CZero, <<One, -One>>}

PassOrder ==
    <<"density", "fft_forward", "poisson", "fft_backward", "gradient",
      "integrate", "expansion">>

\* The order of run with box_expansion before update_particles: a mutant
\* of After.
AfterSwapped(p) ==
    CASE p = "memset"       -> "deposit"
      [] p = "deposit"      -> "fft_forward"
      [] p = "fft_forward"  -> "poisson"
      [] p = "poisson"      -> "fft_backward"
      [] p = "fft_backward" -> "expansion"
      [] p = "expansion"    -> "gradient"
      [] p = "gradient"     -> "integrate"
      [] p = "integrate"    -> "advance"
      [] p = "advance"      -> "loop"

\* the statement that follows each statement of the loop body of run
After(p) ==
    CASE p = "memset"       -> "deposit"
      [] p = "deposit"      -> "fft_forward"
      [] p = "fft_forward"  -> "poisson"
      [] p = "poisson"      -> "fft_backward"
      [] p = "fft_backward" -> "gradient"
      [] p = "gradient"     -> "integrate"
      [] p = "integrate"    -> "expansion"
      [] p = "expansion"    -> "advance"
      [] p = "advance"      -> "loop"

\* The loop test with <= : a mutant of LoopCondition.
LoopConditionInclusive(now, tmax) == now <= tmax

\* while (t < time_max)
LoopCondition(now, tmax) == now < tmax

\* A threshold of more than ten steps: a mutant of SnapshotDue.
SnapshotDueLate(c) == c > SnapshotEvery

\* if (counter >= 10)
SnapshotDue(c) == c >= SnapshotEvery

\* SaveToFile(density_buffer, number_of_cells, full_path): writes the file
\* and leaves the field as it is
SaveToFile(field, N, path) == field

\* fill_density_buffer as a whole, the particles taken in index order
RECURSIVE DepositAll(_, _, _, _, _, _)
DepositAll(buf, parts, n, m, W, N) ==
    IF n = 0 THEN buf
    ELSE DepositOne(DepositAll(buf, parts, n - 1, m, W, N), parts[n], m, W, N)

\* one iteration of the loop of run on a simulation without output folder
StepWithoutFolder(s) ==
    LET N    == number_of_cells
        size == Cardinality(DOMAIN s.density)
        dens == DepositAll(ZeroBuffer(s.density, size), s.particles,
                           Len(s.particles), mass, s.box_width, N)
        ksp  == PoissonScale(FFTWExecute(dens, FFTW_FORWARD, N), size,
                             s.box_width, N)
        pot  == FFTWExecute(ksp, FFTW_BACKWARD, N)
        grad == CalculateGradient(pot, s.box_width, N)
        moved == UpdateParticles(s.particles, grad, time_step, N)
    IN  [particles |-> ExpandVelocities(moved, expansion_factor),
         box_width |-> ExpandWidth(s.box_width, expansion_factor),
         t |-> FAdd(s.t, time_step),
         density |-> dens, k_space |-> ksp, potential |-> pot]

SimState ==
    [particles |-> particles, box_width |-> box_width, t |-> t,
     density |-> density_buffer, k_space |-> k_space_buffer,
     potential |-> potential_buffer]

InitRun ==
    /\ number_of_cells \in RunCells
    /\ \E tt \in RunTimes : time_step = tt[1] /\ time_max = tt[2]
    /\ box_width = One
    /\ expansion_factor \in RunFactors
    /\ mass = One
    /\ particles \in [1..NumParticles -> StartParticles]
    /\ output_folder \in BOOLEAN
    /\ LET r == Simulation(time_max, time_step, box_width,
                           ToLimbs(number_of_cells), expansion_factor)
       IN  /\ r.outcome = "constructed"
           /\ \E z \in PlanGarbage :
                /\ density_buffer = [n \in 0..(ToNat(r.buffer_length) - 1) |-> z]
                /\ k_space_buffer = density_buffer
                /\ potential_buffer = density_buffer
    /\ gradient = <<>>
    /\ t = 0 /\ counter = 0
    /\ pc = "loop" /\ deposited = {} /\ step_count = 0 /\ trace = <<>>
    /\ snapshots = <<>>
    /\ ref = SimState
    /\ CtorIdle /\ SweepIdle

fieldVars == <<time_max, time_step, number_of_cells, expansion_factor, mass,
               output_folder>>

\* while (t < time_max)
LoopTest ==
    /\ pc = "loop"
    /\ step_count < MaxSteps
    /\ pc' = IF LoopCondition(t, time_max) THEN "memset" ELSE "done"
    /\ trace' = <<>>
    /\ UNCHANGED <<fieldVars, box_width, particles, density_buffer,
                   k_space_buffer, potential_buffer, gradient, t, counter,
                   deposited, step_count, snapshots, ref>>
    /\ UNCHANGED <<ctorVars, sweepVars>>

\* fill_density_buffer: the memset
ZeroDensity ==
    /\ pc = "memset"
    /\ density_buffer' =
           ZeroBuffer(density_buffer,
                      ToNat(MemsetCells(ToLimbs(number_of_cells))))
    /\ deposited' = {}
    /\ pc' = After(pc)
    /\ UNCHANGED <<fieldVars, box_width, particles, k_space_buffer,
                   potential_buffer, gradient, t, counter, step_count, trace,
                   snapshots, ref>>
    /\ UNCHANGED <<ctorVars, sweepVars>>

\* fill_density_buffer: the iteration of the parallel loop for particle n
Deposit(n) ==
    /\ pc = "deposit"
    /\ n \notin deposited
    /\ density_buffer' =
           DepositOne(density_buffer, particles[n], mass, box_width,
                      number_of_cells)
    /\ deposited' = deposited \cup {n}
    /\ UNCHANGED <<fieldVars, box_width, particles, k_space_buffer,
                   potential_buffer, gradient, t, counter, pc, step_count,
                   trace, snapshots, ref>>
    /\ UNCHANGED <<ctorVars, sweepVars>>

\* fill_density_buffer returns when every iteration has run
DepositDone ==
    /\ pc = "deposit"
    /\ deposited = DOMAIN particles
    /\ pc' = After(pc)
    /\ trace' = Append(trace, "density")
    /\ deposited' = {}
    /\ UNCHANGED <<fieldVars, box_width, particles, density_buffer,
                   k_space_buffer, potential_buffer, gradient, t, counter,
                   step_count, snapshots, ref>>
    /\ UNCHANGED <<ctorVars, sweepVars>>

\* fill_potential_buffer: fftw_execute(forward_plan)
ForwardFFT ==
    /\ pc = "fft_forward"
    /\ k_space_buffer' = FFTWExecute(density_buffer, FFTW_FORWARD, number_of_cells)
    /\ pc' = After(pc)
    /\ trace' = Append(trace, "fft_forward")
    /\ UNCHANGED <<fieldVars, box_width, particles, density_buffer,
                   potential_buffer, gradient, t, counter, deposited,
                   step_count, snapshots, ref>>
    /\ UNCHANGED <<ctorVars, sweepVars>>

\* fill_potential_buffer: the DC component and the scaling loop
Poisson ==
    /\ pc = "poisson"
    /\ k_space_buffer' =
           PoissonScale(k_space_buffer, ToNat(TotalSize(ToLimbs(number_of_cells))),
                        box_width, number_of_cells)
    /\ pc' = After(pc)
    /\ trace' = Append(trace, "poisson")
    /\ UNCHANGED <<fieldVars, box_width, particles, density_buffer,
                   potential_buffer, gradient, t, counter, deposited,
                   step_count, snapshots, ref>>
    /\ UNCHANGED <<ctorVars, sweepVars>>

\* fill_potential_buffer: fftw_execute(backward_plan)
BackwardFFT ==
    /\ pc = "fft_backward"
    /\ potential_buffer' = FFTWExecute(k_space_buffer, FFTW_BACKWARD, number_of_cells)
    /\ pc' = After(pc)
    /\ trace' = Append(trace, "fft_backward")
    /\ UNCHANGED <<fieldVars, box_width, particles, density_buffer,
                   k_space_buffer, gradient, t, counter, deposited, step_count,
                   snapshots, ref>>
    /\ UNCHANGED <<ctorVars, sweepVars>>

\* update_particles: calculate_gradient(potential_buffer)
Gradient ==
    /\ pc = "gradient"
    /\ gradient' = CalculateGradient(potential_buffer, box_width, number_of_cells)
    /\ pc' = After(pc)
    /\ trace' = Append(trace, "gradient")
    /\ UNCHANGED <<fieldVars, box_width, particles, density_buffer,
                   k_space_buffer, potential_buffer, t, counter, deposited,
                   step_count, snapshots, ref>>
    /\ UNCHANGED <<ctorVars, sweepVars>>

\* update_particles: the kick, the drift and the boundary conditions
Integrate ==
    /\ pc = "integrate"
    /\ particles' = UpdateParticles(particles, gradient, time_step, number_of_cells)
    /\ gradient' = <<>>
    /\ pc' = After(pc)
    /\ trace' = Append(trace, "integrate")
    /\ UNCHANGED <<fieldVars, box_width, density_buffer, k_space_buffer,
                   potential_buffer, t, counter, deposited, step_count,
                   snapshots, ref>>
    /\ UNCHANGED <<ctorVars, sweepVars>>

\* box_expansion
Expansion ==
    /\ pc = "expansion"
    /\ box_width' = ExpandWidth(box_width, expansion_factor)
    /\ particles' = ExpandVelocities(particles, expansion_factor)
    /\ pc' = After(pc)
    /\ trace' = Append(trace, "expansion")
    /\ UNCHANGED <<fieldVars, density_buffer, k_space_buffer, potential_buffer,
                   gradient, t, counter, deposited, step_count, snapshots, ref>>
    /\ UNCHANGED <<ctorVars, sweepVars>>

\* t += time_step and the snapshot branch
Advance ==
    /\ pc = "advance"
    /\ t' = FAdd(t, time_step)
    /\ step_count' = step_count + 1
    /\ IF output_folder
       THEN IF SnapshotDue(counter + 1)
            THEN /\ counter' = 0
                 /\ density_buffer' =
                        SaveToFile(density_buffer, number_of_cells, step_count')
                 /\ snapshots' = Append(snapshots, step_count')
            ELSE /\ counter' = counter + 1
                 /\ UNCHANGED <<density_buffer, snapshots>>
       ELSE UNCHANGED <<counter, density_buffer, snapshots>>
    /\ ref' = StepWithoutFolder(ref)
    /\ pc' = After(pc)
    /\ UNCHANGED <<fieldVars, box_width, particles, k_space_buffer,
                   potential_buffer, gradient, deposited, trace>>
    /\ UNCHANGED <<ctorVars, sweepVars>>

NextRun ==
    \/ LoopTest
    \/ ZeroDensity
    \/ \E n \in 1..NumParticles : Deposit(n)
    \/ DepositDone
    \/ ForwardFFT
    \/ Poisson
    \/ BackwardFFT
    \/ Gradient
    \/ Integrate
    \/ Expansion
    \/ Advance

SpecRun == InitRun /\ [][NextRun]_vars

(***************************************************************************)
(* SpecSweep: main of NBody_Comparison, one process per MPI rank.          *)
(*                                                                         *)
(* MPI_Send may return as soon as the message is buffered or only when the *)
(* matching receive has taken it; eager says which the library does.       *)
(* MPI_Recv(source, tag) takes the message of that source and tag.         *)
(* peer_step, peer_min and sim_factor hold, per rank, the locals           *)
(* expansion_factor_step, minimum_expansion_factor and expansion_factor    *)
(* once they have been assigned.                                           *)
(***************************************************************************)
MaxProc == 4
NumBins == 101

\* values of -emin and -emax
SweepFactors == {0, One, One + 6}
\* t_max = 1.5 and time_step = 0.01 of main; the constructor only tests the
\* sign of the time step, which the smallest positive grid value keeps
SweepTMax == One + One \div 2
SweepTimeStep == 1
SweepWidth == 100 * One
SweepCells == ToLimbs(101)

Ranks == 0..(num_proc - 1)
Peers == 1..(num_proc - 1)

\* double expansion_factor_step = (maximum - minimum) / (num_proc - 1)
ExpansionFactorStep(lo, hi, n) == RoundDiv(hi - lo, n - 1)

\* double expansion_factor = minimum_expansion_factor + process_id * expansion_factor_step
ExpansionFactor(lo, rank, step) == lo + rank * step

\* Simulation sim(t_max, time_step, ..., width, num_cells, expansion_factor)
\* of main, tabulated over the factors a process can compute
SweepFactorRange == (-2 * One)..((MaxProc + 2) * (One + 6))
SweepConstruct ==
    [factor \in SweepFactorRange |->
        Simulation(SweepTMax, SweepTimeStep, SweepWidth, SweepCells, factor).outcome] @@ <<>>

Message(src, dst, tag, count, value) ==
    [src |-> src, dst |-> dst, tag |-> tag, count |-> count, value |-> value]

Pending(src, dst, tag) == {m \in network : m.src = src /\ m.dst = dst /\ m.tag = tag}

\* The coordinator receiving the vector before its size: a mutant of RecvTag.
RecvTagSwapped(p) ==
    CASE p = "recv_step" -> 0
      [] p = "recv_min"  -> 1
      [] p = "recv_size" -> 3
      [] p = "recv_vec"  -> 2

\* the tag each MPI_Recv of main names
RecvTag(p) ==
    CASE p = "recv_step" -> 0
      [] p = "recv_min"  -> 1
      [] p = "recv_size" -> 2
      [] p = "recv_vec"  -> 3

\* the tag each MPI_Send of main names
SendTag(p) ==
    CASE p = "send_min"  -> 0
      [] p = "send_step" -> 1
      [] p = "send_size" -> 2
      [] p = "send_vec"  -> 3

\* the statement after each send has returned
AfterSend(p) ==
    CASE p = "send_min"  -> "send_step"
      [] p = "send_step" -> "next_peer"
      [] p = "send_size" -> "send_vec"
      [] p = "send_vec"  -> "finalize"

InitSweep ==
    /\ num_proc \in 2..MaxProc
    /\ flags_valid \in BOOLEAN
    /\ eager \in BOOLEAN
    /\ emin \in SweepFactors
    /\ emax \in SweepFactors
    /\ ppc = [r \in Ranks |-> IF r = 0 THEN "parse" ELSE "recv_step"]
    /\ loop_i = 0
    /\ network = {}
    /\ peer_step = <<>>
    /\ peer_min = <<>>
    /\ sim_factor = <<>>
    /\ corr_funcs = <<>>
    /\ CtorIdle /\ RunIdle

sweepInputs == <<num_proc, flags_valid, eager, emin, emax>>

\* the argument loop of the coordinator: an unknown flag aborts every process
ParseArgs ==
    /\ ppc[0] = "parse"
    /\ IF flags_valid
       THEN /\ ppc' = [ppc EXCEPT ![0] = "send_min"]
            /\ loop_i' = 1
       ELSE /\ ppc' = [r \in Ranks |-> "aborted"]
            /\ UNCHANGED loop_i
    /\ UNCHANGED <<sweepInputs, network, peer_step, peer_min, sim_factor, corr_funcs>>
    /\ UNCHANGED <<ctorVars, runVars>>

\* the coordinator's MPI_Send of tag 0 or 1 to peer loop_i is posted
CoordSend ==
    /\ ppc[0] \in {"send_min", "send_step"}
    /\ LET value == IF ppc[0] = "send_min" THEN emin
                    ELSE ExpansionFactorStep(emin, emax, num_proc)
       IN  network' = network \cup {Message(0, loop_i, SendTag(ppc[0]), 1, value)}
    /\ ppc' = [ppc EXCEPT ![0] = IF @ = "send_min" THEN "wait_min" ELSE "wait_step"]
    /\ UNCHANGED <<sweepInputs, loop_i, peer_step, peer_min, sim_factor, corr_funcs>>
    /\ UNCHANGED <<ctorVars, runVars>>

\* the coordinator's MPI_Send returns; after tag 1 the loop goes on
CoordSendReturn ==
    /\ ppc[0] \in {"wait_min", "wait_step"}
    /\ LET sent == IF ppc[0] = "wait_min" THEN "send_min" ELSE "send_step"
       IN  /\ eager \/ Pending(0, loop_i, SendTag(sent)) = {}
           /\ IF AfterSend(sent) = "next_peer"
              THEN /\ loop_i' = loop_i + 1
                   /\ ppc' = [ppc EXCEPT ![0] = IF loop_i + 1 < num_proc
                                                THEN "send_min" ELSE "simulate"]
              ELSE /\ ppc' = [ppc EXCEPT ![0] = AfterSend(sent)]
                   /\ UNCHANGED loop_i
    /\ UNCHANGED <<sweepInputs, network, peer_step, peer_min, sim_factor, corr_funcs>>
    /\ UNCHANGED <<ctorVars, runVars>>

\* a peer's MPI_Recv of tag 0 into expansion_factor_step, then of tag 1
\* into minimum_expansion_factor
PeerRecv(r) ==
    /\ r \in Peers
    /\ ppc[r] \in {"recv_step", "recv_min"}
    /\ \E m \in Pending(0, r, RecvTag(ppc[r])) :
           /\ network' = network \ {m}
           /\ IF ppc[r] = "recv_step"
              THEN /\ peer_step' = (r :> m.value) @@ peer_step
                   /\ UNCHANGED peer_min
                   /\ ppc' = [ppc EXCEPT ![r] = "recv_min"]
              ELSE /\ peer_min' = (r :> m.value) @@ peer_min
                   /\ UNCHANGED peer_step
                   /\ ppc' = [ppc EXCEPT ![r] = "simulate"]
    /\ UNCHANGED <<sweepInputs, loop_i, sim_factor, corr_funcs>>
    /\ UNCHANGED <<ctorVars, runVars>>

\* Simulation sim(...); sim.run(); correlationFunction(...).  A constructor
\* that throws ends the process: nothing in main catches.
Simulate(r) ==
    /\ r \in Ranks
    /\ ppc[r] = "simulate"
    /\ LET factor == IF r = 0
                     THEN ExpansionFactor(emin, 0, ExpansionFactorStep(emin, emax, num_proc))
                     ELSE ExpansionFactor(peer_min[r], r, peer_step[r])
       IN  /\ sim_factor' = (r :> factor) @@ sim_factor
           /\ IF SweepConstruct[factor] = "constructed"
              THEN /\ ppc' = [ppc EXCEPT ![r] = IF r = 0 THEN "recv_size" ELSE "send_size"]
                   /\ loop_i' = IF r = 0 THEN 1 ELSE loop_i
              ELSE /\ ppc' = [ppc EXCEPT ![r] = "terminated"]
                   /\ UNCHANGED loop_i
    /\ UNCHANGED <<sweepInputs, network, peer_step, peer_min, corr_funcs>>
    /\ UNCHANGED <<ctorVars, runVars>>

\* a peer's MPI_Send of num_bins (tag 2) or of the vector (tag 3) is posted;
\* the vector's payload is named by the rank that computed it
PeerSend(r) ==
    /\ r \in Peers
    /\ ppc[r] \in {"send_size", "send_vec"}
    /\ LET msg == IF ppc[r] = "send_size"
                  THEN Message(r, 0, SendTag(ppc[r]), 1, NumBins)
                  ELSE Message(r, 0, SendTag(ppc[r]), NumBins, r)
       IN  network' = network \cup {msg}
    /\ ppc' = [ppc EXCEPT ![r] = IF @ = "send_size" THEN "wait_size" ELSE "wait_vec"]
    /\ UNCHANGED <<sweepInputs, loop_i, peer_step, peer_min, sim_factor, corr_funcs>>
    /\ UNCHANGED <<ctorVars, runVars>>

\* a peer's MPI_Send returns
PeerSendReturn(r) ==
    /\ r \in Peers
    /\ ppc[r] \in {"wait_size", "wait_vec"}
    /\ LET sent == IF ppc[r] = "wait_size" THEN "send_size" ELSE "send_vec"
       IN  /\ eager \/ Pending(r, 0, SendTag(sent)) = {}
           /\ ppc' = [ppc EXCEPT ![r] = AfterSend(sent)]
    /\ UNCHANGED <<sweepInputs, loop_i, network, peer_step, peer_min, sim_factor,
                   corr_funcs>>
    /\ UNCHANGED <<ctorVars, runVars>>

\* the coordinator's MPI_Recv of the size (tag 2) from peer loop_i
CoordRecvSize ==
    /\ ppc[0] = "recv_size"
    /\ \E m \in Pending(loop_i, 0, RecvTag("recv_size")) :
           /\ network' = network \ {m}
           /\ corr_funcs' = Append(corr_funcs, [rank |-> loop_i, size |-> m.value,
                                                received |-> FALSE])
    /\ ppc' = [ppc EXCEPT ![0] = "recv_vec"]
    /\ UNCHANGED <<sweepInputs, loop_i, peer_step, peer_min, sim_factor>>
    /\ UNCHANGED <<ctorVars, runVars>>

\* the coordinator's MPI_Recv of receive_size doubles (tag 3) into
\* receive_vec, and the push_back; a longer message is a truncation error,
\* which aborts
CoordRecvVec ==
    /\ ppc[0] = "recv_vec"
    /\ \E m \in Pending(loop_i, 0, RecvTag("recv_vec")) :
           /\ network' = network \ {m}
           /\ IF m.count <= corr_funcs[Len(corr_funcs)].size
              THEN /\ corr_funcs' = [corr_funcs EXCEPT ![Len(corr_funcs)].received = TRUE]
                   /\ loop_i' = loop_i + 1
                   /\ ppc' = [ppc EXCEPT ![0] = IF loop_i + 1 < num_proc
                                                THEN "recv_size" ELSE "finalize"]
              ELSE /\ ppc' = [r \in Ranks |-> "aborted"]
                   /\ UNCHANGED <<corr_funcs, loop_i>>
    /\ UNCHANGED <<sweepInputs, peer_step, peer_min, sim_factor>>
    /\ UNCHANGED <<ctorVars, runVars>>

\* Save_Correlations_csv (coordinator) and MPI_Finalize
Finalize(r) ==
    /\ r \in Ranks
    /\ ppc[r] = "finalize"
    /\ ppc' = [ppc EXCEPT ![r] = "finalized"]
    /\ UNCHANGED <<sweepInputs, loop_i, network, peer_step, peer_min, sim_factor,
                   corr_funcs>>
    /\ UNCHANGED <<ctorVars, runVars>>

Coordinator ==
    \/ ParseArgs
    \/ CoordSend
    \/ CoordSendReturn
    \/ Simulate(0)
    \/ CoordRecvSize
    \/ CoordRecvVec
    \/ Finalize(0)

Peer(r) ==
    \/ PeerRecv(r)
    \/ Simulate(r)
    \/ PeerSend(r)
    \/ PeerSendReturn(r)
    \/ Finalize(r)

NextSweep == Coordinator \/ \E r \in 1..(MaxProc - 1) : Peer(r)

\* the processes run: while some process can take its next step, one does
SpecSweep == InitSweep /\ [][NextSweep]_vars /\ WF_vars(NextSweep)

(***************************************************************************)
(* Claims about run (SpecRun).                                             *)
(***************************************************************************)
AllParticles == DOMAIN particles
Axes == 1..3
BodyPasses ==
    {"memset", "deposit", "fft_forward", "poisson", "fft_backward", "gradient",
     "integrate", "expansion", "advance"}

\* C5: after every time step every particle position lies in [0,1) on every
\* axis, so every cell index floor(p * N_c) lies in 0..N_c-1.
C5_PositionsInUnitBox ==
    \A n \in AllParticles : \A a \in Axes :
        /\ 0 <= particles[n].position[a]
        /\ particles[n].position[a] < One
        /\ CellCoord(particles[n].position[a], number_of_cells) \in
               0..(number_of_cells - 1)

\* the drift of the step just integrated
Drift(n, a) == RoundDiv(particles[n].velocity[a] * time_step, One)

\* update_particles has just moved one coordinate by a box length or more
\* upwards and one downwards, in a step after the first
C5_Witness ==
    /\ pc = "expansion" /\ step_count >= 1
    /\ \E n \in AllParticles : \E a \in Axes : Drift(n, a) >= One
    /\ \E n \in AllParticles : \E a \in Axes : Drift(n, a) <= -One

\* the number of completed passes when run is at each statement
PassesBefore(p) ==
    CASE p = "memset"       -> 0
      [] p = "deposit"      -> 0
      [] p = "fft_forward"  -> 1
      [] p = "poisson"      -> 2
      [] p = "fft_backward" -> 3
      [] p = "gradient"     -> 4
      [] p = "integrate"    -> 5
      [] p = "expansion"    -> 6
      [] p = "advance"      -> 7

\* C6: within each time step the passes run in the order density, forward
\* FFT, Poisson scaling, backward FFT, gradient, integration, expansion and
\* then t advances; one pass is active at a time and a step starts only
\* after the expansion of the previous one.
C6_PassOrder ==
    /\ pc \in BodyPasses =>
          trace = SubSeq(PassOrder, 1, PassesBefore(pc))
    /\ pc = "loop" => (IF step_count = 0 THEN trace = <<>> ELSE trace = PassOrder)
    /\ pc = "done" => trace = <<>>
    /\ deposited # {} => pc = "deposit"
    /\ gradient # <<>> => pc = "integrate"

\* every pass of a second or later step has run, in order
C6_Witness == pc = "advance" /\ step_count >= 1 /\ trace = PassOrder

\* the number of particles among S whose nearest-grid-point cell is c
CountIn(c, S) ==
    Cardinality({n \in S : CellOf(particles[n], number_of_cells) = c})

RECURSIVE SumReal(_, _)
SumReal(buf, n) == IF n = 0 THEN 0 ELSE buf[n - 1][1] + SumReal(buf, n - 1)

\* C7: after fill_density_buffer, whatever the order of the atomic
\* increments, each density cell holds (particles in the cell) times
\* mass / (W / N_c)^3 with no imaginary part, and the cells sum to
\* N_p * mass / (W / N_c)^3; during the deposit each cell holds the
\* increments of the iterations that have run.
C7_DepositedDensity ==
    LET sd == SingleDensity(mass, box_width, number_of_cells)
    IN  /\ pc = "deposit" =>
              \A c \in DOMAIN density_buffer :
                  density_buffer[c] = <<CountIn(c, deposited) * sd, 0>>
        /\ pc \in {"fft_forward", "poisson", "fft_backward", "gradient"} =>
              /\ \A c \in DOMAIN density_buffer :
                     density_buffer[c] = <<CountIn(c, AllParticles) * sd, 0>>
              /\ SumReal(density_buffer, Cardinality(DOMAIN density_buffer)) =
                     Cardinality(AllParticles) * sd

\* a deposit of a later step has put two particles into one cell
C7_Witness ==
    /\ pc = "fft_forward" /\ step_count >= 1
    /\ SingleDensity(mass, box_width, number_of_cells) > 0
    /\ \E c \in DOMAIN density_buffer : CountIn(c, AllParticles) >= 2

CeilDiv(a, b) == (a + b - 1) \div b

\* t after n iterations: the sum of n time steps, rounded at each addition
RECURSIVE RoundedSum(_)
RoundedSum(n) == IF n = 0 THEN 0 ELSE FAdd(RoundedSum(n - 1), time_step)

\* C10 as stated: run ends after exactly n iterations, n the smallest
\* integer with n * t_step >= t_max.
C10_AsStated ==
    pc = "done" => step_count = CeilDiv(time_max, time_step)

\* C10 amended: run executes the loop body while the accumulated sum of
\* time steps, rounded at each addition, is below t_max: no step runs once
\* t >= t_max, there is no early exit, and when run ends the number of
\* iterations is the smallest n whose rounded n-fold sum reaches t_max,
\* which is the smallest n with n * t_step >= t_max when every partial sum
\* is exact (one iteration when t_max = t_step).
C10_RoundedStepCount ==
    /\ t = RoundedSum(step_count)
    /\ pc \in BodyPasses \ {"advance"} => t < time_max
    /\ pc = "advance" => RoundedSum(step_count) < time_max
    /\ pc = "done" =>
          /\ t >= time_max
          /\ \A k \in 0..(step_count - 1) : RoundedSum(k) < time_max
          /\ (\A k \in 0..step_count : RoundedSum(k) = k * time_step)
                 => step_count = CeilDiv(time_max, time_step)
          /\ time_max = time_step => step_count = 1

\* a run that ended after more iterations than t_max / t_step
C10_Witness ==
    /\ pc = "done" /\ step_count > CeilDiv(time_max, time_step)
    /\ \E k \in 1..step_count : RoundedSum(k) # k * time_step

(***************************************************************************)
(* Claims about the constructor and the mesh extents (SpecCtor).           *)
(***************************************************************************)
Returned == obj \in {"constructed", "invalid_argument", "overflow_error"}
Threw == obj \in {"invalid_argument", "overflow_error"}
CellsInRange == LimbLess(Zero, call.num_cells) /\ ~LimbLess(IntMax, call.num_cells)
SomeNonPositive ==
    call.t_max <= 0 \/ call.t_step <= 0 \/ call.W <= 0 \/ call.e_factor <= 0
AllPositive == ~SomeNonPositive

\* C3: a cell count outside [1, INT_MAX] (in particular 0) makes the
\* constructor throw, and every constructed Simulation has N_c > 0.
C3_CellCountChecked ==
    Returned => /\ (~CellsInRange => Threw)
                /\ (obj = "constructed" => LimbLess(Zero, call.num_cells))

C9_BuffersHoldCube ==
    obj = "constructed" =>
        /\ buffer_length = Cube(call.num_cells)
        /\ (memset_cells # NotComputed => memset_cells = buffer_length)
        /\ (total_size # NotComputed => total_size = buffer_length)
        /\ (index # NotComputed =>
               /\ index.value = ExactIndex(ToLimbs(index.cell[1]), ToLimbs(index.cell[2]),
                                           ToLimbs(index.cell[3]), call.num_cells)
               /\ LimbLess(index.value, buffer_length))

(***************************************************************************)
(* Claims about the sweep (SpecSweep).                                     *)
(***************************************************************************)
\* the value the coordinator sends under tag 1
SentStep == ExpansionFactorStep(emin, emax, num_proc)

\* C1 as stated: every process that builds its simulation builds it with
\* the factor a_min + rank * step, step being (a_max - a_min) / (P - 1).
\* The peers store tag 0 (a_min) as the step and tag 1 (the step) as the
\* minimum, so rank r uses step + r * a_min.
C1_FactorOfRank ==
    \A r \in DOMAIN sim_factor : sim_factor[r] = emin + r * SentStep

ValidSweep == flags_valid /\ emin > 0 /\ emax > 0

AllFinalized == \A r \in Ranks : ppc[r] = "finalized"

\* what the coordinator has collected: one vector per peer, in rank order
CollectedInOrder ==
    /\ Len(corr_funcs) = num_proc - 1
    /\ \A n \in 1..Len(corr_funcs) :
           /\ corr_funcs[n].rank = n
           /\ corr_funcs[n].size = NumBins
           /\ corr_funcs[n].received

SweepComplete == AllFinalized /\ network = {} /\ CollectedInOrder

\* the coordinator's send of tag to peer r has been posted
SentTo(r, tag) ==
    \/ Pending(0, r, tag) # {}
    \/ r \in DOMAIN (IF tag = 0 THEN peer_step ELSE peer_min)

\* the coordinator simulates only after both sends to every peer and
\* collects only after its own simulation; no process aborts or terminates
SweepOrdered ==
    /\ 0 \in DOMAIN sim_factor => \A r \in Peers : SentTo(r, 0) /\ SentTo(r, 1)
    /\ corr_funcs # <<>> => 0 \in DOMAIN sim_factor
    /\ \A r \in Ranks : ppc[r] \notin {"aborted", "terminated"}

\* C2: with valid flags (both factors positive) and at least two
\* processes the exchange cannot block, whether sends are buffered or
\* synchronous: the coordinator posts tag 0 and tag 1 to every peer before
\* its own simulation and collects after it, every process reaches
\* MPI_Finalize, no message is left unmatched, and the coordinator holds
\* exactly one vector of 101 values per peer, collected in rank order.
C2_ExchangeCompletes ==
    /\ ValidSweep ~> SweepComplete
    /\ [](ValidSweep => SweepOrdered)

\* a sweep of three or more processes with synchronous sends has completed
C2_Witness ==
    /\ ValidSweep /\ ~eager /\ num_proc >= 3 /\ emin # emax
    /\ SweepComplete
    /\ DOMAIN sim_factor = Ranks

====
